---------------------------- MODULE Spec2Model ----------------------------
(***************************************************************************)
(* A model of tuisky's feed watcher (src/backend/watches/feed.rs):         *)
(*   - update_feeds, the merge of a fetched page into the ordered,         *)
(*     de-duplicated cache (an IndexMap keyed by the post's cid);          *)
(*   - filter_feed, the preference filter of the following timeline;       *)
(*   - FeedWatcher: the dispatch loop started by subscribe(), the          *)
(*     recompute tasks it spawns (update / calculate_feed) and the watch   *)
(*     channel they publish to.                                            *)
(*                                                                         *)
(* An Option<T> is a sequence of length at most one: None is << >> and     *)
(* Some(x) is << x >>.                                                      *)
(***************************************************************************)
EXTENDS Integers, Sequences, FiniteSets, TLC

VARIABLES
    \* ---- update_feeds called on its own (SpecMerge) ----
    feed,           \* the page handed to update_feeds, oldest first
    feed_map,       \* the IndexMap: a sequence of FeedViewPosts, unique by cid
    old_map,        \* feed_map as it was when update_feeds was called
    merged_keys,    \* the cids of every page merged into feed_map so far
    upc,            \* "call" before update_feeds has run, "ret" after
    \* ---- filter_feed called on its own (SpecFilter) ----
    feed_view_post, \* the item handed to filter_feed
    pref,           \* the FeedViewPreference handed to filter_feed
    keep,           \* what filter_feed returned (Some(bool)), None before
    \* ---- the feed watcher (Spec) ----
    descriptor,     \* FeedWatcher.descriptor
    current,        \* FeedWatcher.current: the cache behind the Mutex
    lock,           \* the Mutex: 0 when free, else the task holding it
    loops,          \* per subscribe() call: the dispatch loop's state
    chan,           \* per subscribe() call: the value of its watch channel
    tasks,          \* the recompute tasks, in the order they were spawned
    upstream,       \* FeedWatcher.preferences: the preferences watch
    log,            \* the messages of log::error! and log::warn!
    refreshing,     \* history: what has become of the calls of refresh()
    dropped,        \* whether the FeedWatcher has been dropped
    \* ---- the feed view (SpecView) ----
    items,          \* FeedViewComponent.items: the cids of the IndexMap, in order
    state,          \* FeedViewComponent.state: ListState::selected()
    overflow_checks,\* the build: usize overflow panics (TRUE) or wraps (FALSE)
    panicked,       \* whether update has panicked
    last            \* history: the last action, and the post selected before it

mvars == <<feed, feed_map, old_map, merged_keys, upc>>
fvars == <<feed_view_post, pref, keep>>
wvars == <<descriptor, current, lock, loops, chan, tasks, upstream, log, refreshing,
          dropped>>
vvars == <<items, state, overflow_checks, panicked, last>>
vars == <<mvars, fvars, wvars, vvars>>

---------------------------------------------------------------------------
(* Bounds of the model.                                                    *)

\* The largest like count of a post; thresholds go one further.
MaxLikes == 2
\* The most recompute tasks the dispatch loops spawn.
MaxTasks == 2
\* The most calls of subscribe() on the watcher.
MaxSubs == 1
\* The most calls of subscribe() where the claim is about several handles.
MaxHandles == 2
\* The longest page a fetch returns and update_feeds is given.
MaxPage == 2
\* The most entries of a cache update_feeds is started on.
MaxCache == 3

\* The post identifiers: the three cids of tests::update_feed_views.
Cids == {"c0", "c1", "c2"}
\* The repost timestamps (ReasonRepost.indexed_at), ordered as integers.
Datetimes == {1, 2}
\* The authors (ProfileViewBasic.did).
Dids == {"did:a", "did:b"}

---------------------------------------------------------------------------
(* Values.                                                                 *)

None == << >>
Some(x) == << x >>

\* Some(Union::Refs(FeedViewPostReasonRefs::ReasonRepost(..))), by its time.
ReasonRepost(t) == Some([kind |-> "ReasonRepost", indexed_at |-> t])
\* Some(Union::Unknown(..)): a reason that is no repost.
ReasonUnknown == Some([kind |-> "Unknown", indexed_at |-> 0])

Reasons == {None, ReasonUnknown} \cup {ReasonRepost(t) : t \in Datetimes}

\* matches!(reason, Some(Union::Refs(ReasonRepost(_))))
IsRepost(reason) == reason # None /\ reason[1].kind = "ReasonRepost"

\* FeedViewPostData as tests::feed_view_post builds it: author, no embed, no
\* like count, no labels, no reply. ver tells one payload of a cid from
\* another.
PostView(cid, ver) ==
    [cid |-> cid, ver |-> ver, author |-> "did:a", like_count |-> None,
     embed |-> "None", labeled |-> FALSE]

FeedViewPost(cid, reason, ver) ==
    [post |-> PostView(cid, ver), reason |-> reason, reply |-> None]

\* A reply's context: the parent is a PostView of some author, whom the viewer
\* follows (viewer = Some(TRUE)), does not follow (Some(FALSE)) or for whom no
\* viewer state came (None); or the parent is NotFoundPost / BlockedPost.
ReplyRef(kind, did, viewer) ==
    Some([parent |-> [kind |-> kind, did |-> did, viewer |-> viewer]])

Range(s) == {s[i] : i \in 1..Len(s)}
Reverse(s) == [i \in 1..Len(s) |-> s[Len(s) + 1 - i]]
SeqsUpTo(S, n) == UNION {[1..k -> S] : k \in 0..n}

\* IndexMap::keys, and the position of a key (0 when absent: get_index_of).
Keys(map) == {map[i].post.cid : i \in 1..Len(map)}
IndexOf(map, cid) ==
    IF \E i \in 1..Len(map) : map[i].post.cid = cid
    THEN CHOOSE i \in 1..Len(map) : map[i].post.cid = cid
    ELSE 0
UniqueKeys(map) ==
    \A i, j \in 1..Len(map) : map[i].post.cid = map[j].post.cid => i = j

---------------------------------------------------------------------------
(* update_feeds (feed.rs 198-220).                                         *)

\* Faulty variant: a repost of the same time counts as new.
IsNewRepostOrSame(entry_reason, post_reason) ==
    IF IsRepost(entry_reason) /\ IsRepost(post_reason)
    THEN entry_reason[1].indexed_at <= post_reason[1].indexed_at
    ELSE entry_reason = None /\ post_reason # None

\* The match on (&entry.reason, &post.reason): "Is the feed view a new
\* repost?"
IsNewRepost(entry_reason, post_reason) ==
    IF IsRepost(entry_reason) /\ IsRepost(post_reason)
    THEN entry_reason[1].indexed_at < post_reason[1].indexed_at
    ELSE IF entry_reason = None /\ post_reason # None
    THEN TRUE
    ELSE FALSE

\* Faulty variant: the old entry is not removed before the insert.
swap_remove_kept(map, idx) == map

\* IndexMap::swap_remove: the last entry takes the removed entry's place.
swap_remove(map, idx) ==
    [i \in 1..(Len(map) - 1) |-> IF i = idx THEN map[Len(map)] ELSE map[i]]

\* Faulty variant: the entry is put in front.
insert_front(map, post) == <<post>> \o map

\* IndexMap::insert of a key that is absent: the entry goes to the end.
insert(map, post) == Append(map, post)

\* Faulty variant: the whole entry is replaced, reason and reply included.
update_entry(map, idx, post) == [map EXCEPT ![idx] = post]

\* "Just update the post": entry.post = post.post.clone().
update_post(map, idx, post) == [map EXCEPT ![idx].post = post.post]

\* One iteration of the loop over the page.
MergePost(map, post) ==
    LET idx == IndexOf(map, post.post.cid) IN
    IF idx # 0
    THEN IF IsNewRepost(map[idx].reason, post.reason)
         THEN insert(swap_remove(map, idx), post)
         ELSE update_post(map, idx, post)
    ELSE insert(map, post)

RECURSIVE update_feeds(_, _)
update_feeds(page, map) ==
    IF page = << >> THEN map
    ELSE update_feeds(Tail(page), MergePost(map, Head(page)))

---------------------------------------------------------------------------
(* filter_feed (feed.rs 222-260).                                          *)

\* FeedViewPreferenceData::default(), used when feed_view_prefs has no
\* "home" entry (feed.rs 146-150).
DefaultFeedViewPreference ==
    [hide_replies |-> FALSE, hide_replies_by_unfollowed |-> TRUE,
     hide_replies_by_like_count |-> 0, hide_reposts |-> FALSE,
     hide_quote_posts |-> FALSE]

\* Option::unwrap_or_default on the like count.
unwrap_or_default(like_count) == IF like_count = None THEN 0 ELSE like_count[1]

\* matches!(&reply.parent, Union::Refs(ReplyRefParentRefs::PostView(post_view))
\*     if post_view.author.did == feed_view_post.post.author.did)
is_self_reply(fvp) ==
    /\ fvp.reply[1].parent.kind = "PostView"
    /\ fvp.reply[1].parent.did = fvp.post.author

\* matches!(&reply.parent, Union::Refs(ReplyRefParentRefs::PostView(parent))
\*     if parent.author.viewer.map(|v| v.following.is_some()).unwrap_or_default())
parent_followed(fvp) ==
    /\ fvp.reply[1].parent.kind = "PostView"
    /\ fvp.reply[1].parent.viewer = Some(TRUE)

\* matches!(&post.embed, Some(Union::Refs(AppBskyEmbedRecordView(_)
\*     | AppBskyEmbedRecordWithMediaView(_))))
is_quote_post(fvp) ==
    fvp.post.embed \in {"AppBskyEmbedRecordView", "AppBskyEmbedRecordWithMediaView"}

\* Faulty variant: the quote check is an `if` of its own, not the reply check's
\* `else if`: a reply that no reply rule decided goes on to the quote rule.
filter_feed_quote_any(fvp, p) ==
    IF IsRepost(fvp.reason) THEN ~p.hide_reposts
    ELSE IF fvp.reply # None /\ p.hide_replies THEN is_self_reply(fvp)
    ELSE IF fvp.reply # None
            /\ unwrap_or_default(fvp.post.like_count) < p.hide_replies_by_like_count
    THEN is_self_reply(fvp)
    ELSE IF fvp.reply # None /\ p.hide_replies_by_unfollowed
    THEN parent_followed(fvp)
    ELSE IF is_quote_post(fvp) THEN ~p.hide_quote_posts
    ELSE TRUE

filter_feed(fvp, p) ==
    IF IsRepost(fvp.reason)
    THEN ~p.hide_reposts
    ELSE IF fvp.reply # None
    THEN IF p.hide_replies
         THEN is_self_reply(fvp)
         ELSE IF unwrap_or_default(fvp.post.like_count) < p.hide_replies_by_like_count
         THEN is_self_reply(fvp)
         ELSE IF p.hide_replies_by_unfollowed
         THEN parent_followed(fvp)
         ELSE TRUE
    ELSE IF is_quote_post(fvp)
    THEN ~p.hide_quote_posts
    ELSE TRUE

---------------------------------------------------------------------------
(* The variables of the parts a specification leaves alone.                *)

WatcherIdle ==
    /\ descriptor = "List"
    /\ current = << >>
    /\ lock = 0
    /\ loops = << >>
    /\ chan = << >>
    /\ tasks = << >>
    /\ upstream = [unsubscribed |-> FALSE, refresh |-> FALSE]
    /\ log = {}
    /\ refreshing = [called |-> FALSE, owed |-> {}, spawned |-> FALSE]
    /\ dropped = FALSE

\* FeedViewComponent::new in a build that wraps on overflow; no action handled.
ViewIdle ==
    /\ items = << >>
    /\ state = None
    /\ overflow_checks = FALSE
    /\ panicked = FALSE
    /\ last = [action |-> "new", selected |-> None]

FilterIdle ==
    /\ feed_view_post = FeedViewPost("c0", None, 0)
    /\ pref = DefaultFeedViewPreference
    /\ keep = None

MergeIdle ==
    /\ feed = << >>
    /\ feed_map = << >>
    /\ old_map = << >>
    /\ merged_keys = {}
    /\ upc = "idle"

---------------------------------------------------------------------------
(* SpecFilter: filter_feed on every item and every preference.             *)

Embeds ==
    {"None", "AppBskyEmbedRecordView", "AppBskyEmbedRecordWithMediaView",
     "AppBskyEmbedImagesView"}
LikeCounts == {None} \cup {Some(n) : n \in 0..MaxLikes}
Viewers == {None, Some(FALSE), Some(TRUE)}
Replies ==
    {None, ReplyRef("NotFoundPost", "did:a", None)}
        \cup {ReplyRef("PostView", d, v) : d \in Dids, v \in Viewers}

FilterItems ==
    {[post |-> [cid |-> "c0", ver |-> 0, author |-> a, like_count |-> l,
                embed |-> e, labeled |-> FALSE],
      reason |-> r, reply |-> rp] :
        a \in Dids, l \in LikeCounts, e \in Embeds, r \in Reasons, rp \in Replies}

FeedViewPreferences ==
    [hide_replies : BOOLEAN, hide_replies_by_unfollowed : BOOLEAN,
     hide_replies_by_like_count : 0..(MaxLikes + 1), hide_reposts : BOOLEAN,
     hide_quote_posts : BOOLEAN]

InitFilter ==
    /\ feed_view_post \in FilterItems
    /\ pref \in FeedViewPreferences
    /\ keep = None
    /\ MergeIdle
    /\ WatcherIdle
    /\ ViewIdle

FilterFeedCall ==
    /\ keep = None
    /\ keep' = Some(filter_feed(feed_view_post, pref))
    /\ UNCHANGED <<feed_view_post, pref, mvars, wvars, vvars>>

NextFilter == FilterFeedCall

SpecFilter == InitFilter /\ [][NextFilter]_vars

\* The decision table of the preference filter, by the item's class.
ItemClass(fvp) ==
    CASE IsRepost(fvp.reason) -> "repost"
      [] ~IsRepost(fvp.reason) /\ fvp.reply # None -> "reply"
      [] ~IsRepost(fvp.reason) /\ fvp.reply = None /\ is_quote_post(fvp) -> "quote"
      [] OTHER -> "other"

\* The reply's parent was authored by the author of the reply itself.
SelfReply(fvp) ==
    \E d \in Dids :
        /\ fvp.reply = ReplyRef("PostView", d, fvp.reply[1].parent.viewer)
        /\ d = fvp.post.author

\* The viewer follows the author of the reply's parent.
ParentFollowed(fvp) ==
    \E d \in Dids : fvp.reply = ReplyRef("PostView", d, Some(TRUE))

LikesOf(fvp) ==
    IF fvp.post.like_count \in {Some(n) : n \in 0..(MaxLikes + 1)}
    THEN fvp.post.like_count[1] ELSE 0

KeptByTable(fvp, p) ==
    CASE ItemClass(fvp) = "repost" -> p.hide_reposts = FALSE
      [] ItemClass(fvp) = "reply" ->
            CASE p.hide_replies -> SelfReply(fvp)
              [] ~p.hide_replies /\ LikesOf(fvp) < p.hide_replies_by_like_count ->
                    SelfReply(fvp)
              [] ~p.hide_replies /\ LikesOf(fvp) >= p.hide_replies_by_like_count
                   /\ p.hide_replies_by_unfollowed -> ParentFollowed(fvp)
              [] OTHER -> TRUE
      [] ItemClass(fvp) = "quote" -> p.hide_quote_posts = FALSE
      [] OTHER -> TRUE

\* C9: filter_feed equals the decision table: a repost is kept iff
\* hide-reposts is off; otherwise a reply is kept iff [hide-replies on: it is
\* a self-reply] else [like count below the threshold: it is a self-reply]
\* else [hide-replies-by-unfollowed on: the parent's author is followed] else
\* kept, and the quote rule never applies to a reply; otherwise an item that
\* embeds a quoted record (with or without media) is kept iff
\* hide-quote-posts is off; every other item is kept.
C9_FilterFeedDecisionTable ==
    keep # None => keep = Some(KeptByTable(feed_view_post, pref))

\* filter_feed kept a reply that embeds a quoted record although
\* hide-quote-posts is on: no reply rule hid it and the quote rule did not
\* apply.
C9_Witness ==
    /\ keep = Some(TRUE)
    /\ feed_view_post.reply # None
    /\ ~IsRepost(feed_view_post.reason)
    /\ is_quote_post(feed_view_post)
    /\ pref.hide_quote_posts
    /\ ~pref.hide_replies
    /\ pref.hide_replies_by_like_count > 0

---------------------------------------------------------------------------
(* SpecMerge: update_feeds on every page of at most MaxPage items and      *)
(* every cache of at most MaxCache entries.                                *)

\* The entries a cache starts with: any cid and reason, payload 0.
CacheEntries == {FeedViewPost(c, r, 0) : c \in Cids, r \in Reasons}
Caches == {m \in SeqsUpTo(CacheEntries, MaxCache) : UniqueKeys(m)}

\* The pages: any cids and reasons, repeated or not; the item at place i
\* carries payload i and a reply context, so that every payload and reply of
\* the page differs from the cached ones.
PageEntries == Cids \X Reasons
PageOf(s) ==
    [i \in 1..Len(s) |->
        [post |-> PostView(s[i][1], i), reason |-> s[i][2],
         reply |-> ReplyRef("PostView", "did:b", None)]]
Pages == {PageOf(s) : s \in SeqsUpTo(PageEntries, MaxPage)}

InitMerge ==
    /\ feed \in Pages
    /\ feed_map \in Caches
    /\ old_map = feed_map
    /\ merged_keys = Keys(feed_map)
    /\ upc = "call"
    /\ FilterIdle
    /\ WatcherIdle
    /\ ViewIdle

UpdateFeedsCall ==
    /\ upc = "call"
    /\ feed_map' = update_feeds(feed, feed_map)
    /\ merged_keys' = merged_keys \cup Keys(feed)
    /\ upc' = "ret"
    /\ UNCHANGED <<feed, old_map, fvars, wvars, vvars>>

NextMerge == UpdateFeedsCall

SpecMerge == InitMerge /\ [][NextMerge]_vars

---------------------------------------------------------------------------
(* The claims about update_feeds, under SpecMerge.                         *)

\* The map before and after the i-th item of the page is merged.
StepBefore(i) == update_feeds(SubSeq(feed, 1, i - 1), old_map)
StepAfter(i) ==
    IF i = Len(feed) THEN feed_map ELSE update_feeds(SubSeq(feed, 1, i), old_map)

CidsOf(map) == [i \in 1..Len(map) |-> map[i].post.cid]
ReasonsOf(map) == [i \in 1..Len(map) |-> map[i].reason]

\* C2: after a merge the cache holds each cid at most once, its key set is
\* the union of the key sets of all pages merged, no key of the cache before
\* is gone, and its size is |keys(C) \cup keys(P)|.
C2_KeysAreUnionOfPages ==
    upc = "ret" =>
        /\ UniqueKeys(feed_map)
        /\ Keys(feed_map) = merged_keys
        /\ Keys(old_map) \subseteq Keys(feed_map)
        /\ Len(feed_map) = Cardinality(Keys(old_map) \cup Keys(feed))

\* A merge of a page with a new cid and a cached cid that is promoted.
C2_Witness ==
    /\ upc = "ret"
    /\ Len(old_map) = 2
    /\ Len(feed) = 2
    /\ Keys(feed) \ Keys(old_map) # {}
    /\ \E i \in 1..Len(feed) :
          /\ feed[i].post.cid \in Keys(old_map)
          /\ feed_map[Len(feed_map)] = feed[i]

\* The promote condition as the specification states it: both reasons are
\* reposts and the incoming one is strictly later, or the cached entry has no
\* reason and the incoming item has a Repost reason.
PromoteAsStated(entry_reason, post_reason) ==
    \/ /\ entry_reason = None
       /\ IsRepost(post_reason)
    \/ /\ IsRepost(entry_reason)
       /\ IsRepost(post_reason)
       /\ post_reason[1].indexed_at > entry_reason[1].indexed_at

\* The entry of the item's cid is at the tail and is the incoming item.
MovedToTail(before, after, post) ==
    /\ Len(after) = Len(before)
    /\ after[Len(after)] = post

\* The entry of the item's cid is where it was, with the reason it had.
NotMoved(before, after, post) ==
    LET idx == IndexOf(before, post.post.cid) IN
    /\ Len(after) = Len(before)
    /\ after[idx].post.cid = post.post.cid
    /\ after[idx].reason = before[idx].reason

\* C3: an incoming item whose cid is cached moves the entry to the tail and
\* replaces it wholesale exactly when (a) the cached entry has no reason and
\* the incoming item has a Repost reason or (b) both have a Repost reason and
\* the incoming one is strictly later; otherwise the entry does not move and
\* keeps its reason.
C3_PromotionAsStated ==
    upc = "ret" =>
        \A i \in 1..Len(feed) :
            LET before == StepBefore(i)
                after == StepAfter(i)
                idx == IndexOf(before, feed[i].post.cid)
            IN  idx # 0 =>
                    IF PromoteAsStated(before[idx].reason, feed[i].reason)
                    THEN MovedToTail(before, after, feed[i])
                    ELSE NotMoved(before, after, feed[i])

\* C4: merging an item whose cid is cached and for which the promote
\* condition (the match of update_feeds) is false replaces only the entry's
\* post payload: its reason, its reply context and its position stay, and
\* so does every other entry.
C4_PayloadOnlyUpdate ==
    upc = "ret" =>
        \A i \in 1..Len(feed) :
            LET before == StepBefore(i)
                after == StepAfter(i)
                idx == IndexOf(before, feed[i].post.cid)
            IN  (idx # 0 /\ ~IsNewRepost(before[idx].reason, feed[i].reason)) =>
                    /\ Len(after) = Len(before)
                    /\ \A j \in 1..Len(before) :
                          /\ after[j].post.cid = before[j].post.cid
                          /\ after[j].reason = before[j].reason
                          /\ after[j].reply = before[j].reply
                          /\ after[j].post =
                                IF j = idx THEN feed[i].post ELSE before[j].post

\* A cached repost entry, not at the tail, is re-merged with an older repost
\* reason: only its payload changes.
C4_Witness ==
    /\ upc = "ret"
    /\ Len(feed) = 1
    /\ Len(old_map) = 3
    /\ old_map[1].post.cid = feed[1].post.cid
    /\ old_map[1].reason = ReasonRepost(2)
    /\ feed[1].reason = ReasonRepost(1)
    /\ feed_map[1].post = feed[1].post
    /\ feed_map[1].post # old_map[1].post

\* Every item of the page is cached with the reason it has in the page.
AllCachedUnchanged ==
    \A i \in 1..Len(feed) :
        LET idx == IndexOf(old_map, feed[i].post.cid) IN
        idx # 0 /\ old_map[idx].reason = feed[i].reason

\* C5: merging a page of already-cached items with unchanged reasons leaves
\* the size and the order of the cache unchanged, and merging the same page
\* a second time gives the cache the first merge gave.
C5_MergeIdempotent ==
    upc = "ret" =>
        /\ AllCachedUnchanged =>
              /\ Len(feed_map) = Len(old_map)
              /\ CidsOf(feed_map) = CidsOf(old_map)
              /\ ReasonsOf(feed_map) = ReasonsOf(old_map)
        /\ update_feeds(feed, feed_map) = feed_map

\* A page of two cached reposts with unchanged reasons was merged.
C5_Witness ==
    /\ upc = "ret"
    /\ Len(feed) = 2
    /\ Len(old_map) = 3
    /\ AllCachedUnchanged
    /\ feed[1].post.cid # feed[2].post.cid
    /\ IsRepost(feed[1].reason)
    /\ feed[1].post.cid = old_map[1].post.cid

\* C6: merging a page of pairwise distinct cids into an empty cache yields
\* exactly the page, in the page's order; merging an empty page changes
\* nothing.
C6_MonotonicInsertion ==
    upc = "ret" =>
        /\ (old_map = << >> /\ UniqueKeys(feed)) => feed_map = feed
        /\ feed = << >> => feed_map = old_map

\* Two distinct items were merged into an empty cache.
C6_Witness ==
    /\ upc = "ret"
    /\ old_map = << >>
    /\ Len(feed) = 2
    /\ UniqueKeys(feed)
    /\ Len(feed_map) = 2

\* The reference of the reconciliation on an ordered sequence: removing an
\* entry closes the gap and moves no other entry.
RemoveInOrder(map, idx) ==
    [i \in 1..(Len(map) - 1) |-> IF i < idx THEN map[i] ELSE map[i + 1]]

RemoveThenAppend(map, post) ==
    LET idx == IndexOf(map, post.post.cid) IN
    IF idx # 0
    THEN IF IsNewRepost(map[idx].reason, post.reason)
         THEN Append(RemoveInOrder(map, idx), post)
         ELSE [map EXCEPT ![idx].post = post.post]
    ELSE Append(map, post)

RECURSIVE ReferenceMerge(_, _)
ReferenceMerge(page, map) ==
    IF page = << >> THEN map
    ELSE ReferenceMerge(Tail(page), RemoveThenAppend(map, Head(page)))

\* C15: update_feeds gives what remove-then-append gives: the entries the
\* merge neither inserted nor promoted keep their order and precede the
\* inserted and promoted ones, which are at the tail in page order.
C15_RemoveThenAppendOrder ==
    upc = "ret" => feed_map = ReferenceMerge(feed, old_map)

---------------------------------------------------------------------------
(* The feed watcher: FeedWatcher::subscribe / unsubscribe, update and      *)
(* calculate_feed (feed.rs 18-154).                                        *)

\* FeedDescriptor
Descriptors == {"Timeline", "Feed", "List"}

\* A Preferences value: the moderation preferences, of which the model keeps
\* whether labeled posts are to be filtered from lists, and
\* feed_view_prefs.get("home").
Preferences(hide_labeled, home) ==
    [moderation_prefs |-> [hide_labeled |-> hide_labeled], feed_view_prefs |-> home]

\* The value a preferences handle holds before the first publish.
DefaultPreferences == Preferences(FALSE, None)

\* The snapshots the preferences watch publishes: the default one, and one
\* that filters labeled posts, hides reposts and hides replies of less than
\* one like.
CustomPreferences ==
    Preferences(TRUE, Some([hide_replies |-> FALSE, hide_replies_by_unfollowed |-> FALSE,
                            hide_replies_by_like_count |-> 1, hide_reposts |-> TRUE,
                            hide_quote_posts |-> FALSE]))
PreferencesSnapshots == {DefaultPreferences, CustomPreferences}

\* The items the remote serves: a labeled post, the same post reposted, a
\* reply to another author's post, and a quote post.
LabeledPost ==
    [post |-> [PostView("c0", 1) EXCEPT !.labeled = TRUE], reason |-> None,
     reply |-> None]
Reposted ==
    [post |-> PostView("c0", 2), reason |-> ReasonRepost(1), reply |-> None]
ReplyPost ==
    [post |-> PostView("c1", 1), reason |-> None,
     reply |-> ReplyRef("PostView", "did:b", Some(TRUE))]
QuotePost ==
    [post |-> [PostView("c2", 1) EXCEPT !.embed = "AppBskyEmbedRecordView"],
     reason |-> None, reply |-> None]

\* The pages a fetch may return, newest first.
RemotePages ==
    {<< >>, <<LabeledPost>>, <<Reposted, ReplyPost>>, <<QuotePost, LabeledPost>>}

\* Faulty variant: only the timeline is fetched; a feed yields Vec::new() as a list
\* does.
calls_remote_timeline_only(d) == d = "Timeline"

\* get_feed: a List descriptor yields Vec::new() without a remote call.
calls_remote(d) == d # "List"

\* Faulty variant: the snapshot is taken in the cache's own order.
snapshot_unreversed(map) == map

\* feed_map.values().rev().cloned().collect()
snapshot(map) == Reverse(map)

\* moderator.moderate_post(&post).ui(DecisionContext::ContentList).filter()
moderation_filter(moderator, post) == moderator.hide_labeled /\ post.labeled

\* preferences.feed_view_prefs.get("home"), or the default.
home_pref(preferences) ==
    IF preferences.feed_view_prefs # None
    THEN preferences.feed_view_prefs[1]
    ELSE DefaultFeedViewPreference

\* Faulty variant: the preference filter runs whatever the descriptor.
is_any_descriptor(d) == d \in Descriptors

\* matches!(descriptor, FeedDescriptor::Timeline(_))
is_timeline(d) == d = "Timeline"

\* The two ret.retain(..) of calculate_feed.
retain_all(ret, d, preferences) ==
    LET not_moderated(fvp) == ~moderation_filter(preferences.moderation_prefs, fvp.post)
        by_pref(fvp) == filter_feed(fvp, home_pref(preferences))
        moderated == SelectSeq(ret, not_moderated)
    IN  IF is_timeline(d) THEN SelectSeq(moderated, by_pref) ELSE moderated

\* Faulty variant: a value is sent only while the channel holds its default: a
\* later result never replaces one that is already published.
update_first_only(ch, sub, result) ==
    IF result # None /\ ch[sub] = << >> THEN [ch EXCEPT ![sub] = result[1]] ELSE ch

\* Faulty variant: a failed recompute publishes the default, empty vector.
update_or_default(ch, sub, result) ==
    [ch EXCEPT ![sub] = IF result # None THEN result[1] ELSE << >>]

\* update: Ok(feed) is sent on the watch channel, Err(e) is logged.
update(ch, sub, result) ==
    IF result # None THEN [ch EXCEPT ![sub] = result[1]] ELSE ch

\* preferences.borrow_and_update().clone(): the value (the caller clears the
\* changed flag).
borrow_and_update(loop) == loop.preferences.value

\* preferences.borrow().clone()
borrow(loop) == loop.preferences.value

\* Faulty variant: the tick branch reads with borrow_and_update(), which
\* marks the value seen.
borrow_marks_seen(changed) == FALSE

\* borrow() does not mark the value seen: a pending changed() stays pending.
borrow_seen(changed) == changed

\* The dispatch task holds its receivers until it ends.
live(loop) == loop.pc # "stopped"

\* What quit.recv() yields next on a broadcast channel of capacity 1
\* (feed.rs 20): "empty" when nothing was sent since the receiver was made,
\* "signal" for Ok(()), "lagged" for Err(Lagged) once a second send has
\* overwritten the unread value.
overflow(quit) == IF quit = "empty" THEN "signal" ELSE "lagged"

\* broadcast::Sender::send: every live receiver gets the value.
broadcast_send(ls) ==
    [s \in 1..Len(ls) |->
        IF live(ls[s]) THEN [ls[s] EXCEPT !.quit = overflow(@)] ELSE ls[s]]

\* Its result: Err(SendError) when no receiver is alive.
send_result(ls) == IF \E s \in 1..Len(ls) : live(ls[s]) THEN "Ok" ELSE "Err"

\* Faulty variant: the dispatch task holds a clone of the quit sender, so
\* the channel stays open when the watcher is gone.
sender_kept(quit) == quit

\* The only broadcast::Sender is FeedWatcher.tx; once it is dropped a
\* receiver yields what was sent before and then Err(Closed).
sender_dropped(quit) == IF quit = "empty" THEN "closed" ELSE quit

\* Faulty variant: only Ok(()) ends the loop (`Ok(_) = quit.recv()`).
recv_ready_on_ok(quit) == quit = "signal"

\* `_ = quit.recv()`: the branch is taken on any result of recv, Ok or Err.
recv_ready(quit) == quit # "empty"

\* Faulty variant: a failed send returns early (`self.tx.send(())?`).
unsubscribe_upstream_if_sent(up, result) ==
    IF result = "Ok" THEN [up EXCEPT !.unsubscribed = TRUE] ELSE up

\* self.preferences.unsubscribe(), whatever self.tx.send(()) returned.
unsubscribe_upstream(up, result) == [up EXCEPT !.unsubscribed = TRUE]

\* Faulty variant: refresh() does nothing.
refresh_ignored(up) == up

\* self.preferences.refresh()
refresh_upstream(up) == [up EXCEPT !.refresh = TRUE]

\* The results preferences.changed() can complete with: Ok(()) when a value
\* is unseen, Err when the sender is gone. With both an unseen value and a
\* closed channel the result depends on the tokio version built against.
changed_results(rx) ==
    (IF rx.changed THEN {"Ok"} ELSE {}) \cup (IF rx.closed THEN {"Err"} ELSE {})

\* Faulty variant: the result of changed() is not looked at.
is_ok_unchecked(changed) == TRUE

\* changed.is_ok()
is_ok(changed) == changed = "Ok"

\* Faulty variant: the loop awaits update(..) itself, so it is back at select! only
\* once its recomputes have ended.
awaits_update(ts, s) ==
    \A t \in 1..Len(ts) : ts[t].sub = s => ts[t].pc \in {"done", "failed"}

\* tokio::spawn(async move { update(..).await }): the loop is back at select!
\* whatever the recomputes it spawned are doing.
spawned_detached(ts, s) == TRUE

\* Faulty variant: the first tick is handled as every other tick.
first_tick_spawns(ts, task) == Append(ts, task)

\* "skip the first tick": nothing is spawned for it.
first_tick(ts, task) == ts

\* The ticks a loop has consumed, counted up to two.
tick_count(n) == IF n < 2 THEN n + 1 ELSE 2

\* The state of a dispatch task: where it is, the interval ticks it has
\* consumed, its quit receiver and its preferences receiver (the latest
\* value, whether it is unseen, whether the sender is gone).
NewLoop ==
    [pc |-> "skip", ticks |-> 0, quit |-> "empty",
     preferences |-> [value |-> DefaultPreferences, changed |-> FALSE,
                      closed |-> FALSE]]

\* A recompute task: the loop that spawned it and on what, the preferences it
\* was given, where it is, its page, its snapshot, and as history whether it
\* fetched, the cache as its merge left it, whether its loop had ended when
\* it merged, and what it published.
NewTask(s, trigger, p) ==
    [sub |-> s, trigger |-> trigger, preferences |-> p, pc |-> "fetch",
     fetched |-> FALSE, feed |-> << >>, merged |-> << >>, ret |-> << >>,
     out |-> None, after_stop |-> FALSE]

\* Faulty variant: the recomputes of a loop are aborted when the loop ends.
aborted_with_loop(ls, s) == live(ls[s])

\* The JoinHandle of tokio::spawn is dropped: the recompute is detached and
\* runs on whatever becomes of the loop that spawned it.
runs_detached(ls, s) == TRUE

Init ==
    /\ descriptor \in Descriptors
    /\ current = << >>
    /\ lock = 0
    /\ loops = << >>
    /\ chan = << >>
    /\ tasks = << >>
    /\ upstream = [unsubscribed |-> FALSE, refresh |-> FALSE]
    /\ log = {}
    /\ refreshing = [called |-> FALSE, owed |-> {}, spawned |-> FALSE]
    /\ dropped = FALSE
    /\ MergeIdle
    /\ FilterIdle
    /\ ViewIdle

\* subscribe(): a fresh watch channel seeded with the default vector, a
\* preferences handle, a quit receiver, and the dispatch task.
SubscribeUpTo(n) ==
    /\ ~dropped
    /\ Len(loops) < n
    /\ loops' = Append(loops, NewLoop)
    /\ chan' = Append(chan, << >>)
    /\ UNCHANGED <<descriptor, current, lock, tasks, upstream, log, refreshing, dropped, mvars, fvars, vvars>>

Subscribe == SubscribeUpTo(MaxSubs)

\* "skip the first tick": interval.tick().await before the loop.
SkipFirstTick(s) ==
    /\ loops[s].pc = "skip"
    /\ loops' = [loops EXCEPT ![s].pc = "idle", ![s].ticks = tick_count(@)]
    /\ tasks' = first_tick(tasks, NewTask(s, "tick", borrow(loops[s])))
    /\ UNCHANGED <<descriptor, current, lock, chan, upstream, log, refreshing, dropped, mvars, fvars, vvars>>

\* The preferences watch publishes a snapshot on the handle of loop s.
PreferencesSend(s, p) ==
    /\ live(loops[s])
    /\ ~loops[s].preferences.closed
    /\ loops' = [loops EXCEPT ![s].preferences.value = p,
                              ![s].preferences.changed = TRUE]
    /\ UNCHANGED <<descriptor, current, lock, chan, tasks, upstream, log, refreshing, dropped, mvars, fvars, vvars>>

\* The preferences watch drops the sender of the handle of loop s.
PreferencesClose(s) ==
    /\ live(loops[s])
    /\ ~loops[s].preferences.closed
    /\ loops' = [loops EXCEPT ![s].preferences.closed = TRUE]
    /\ UNCHANGED <<descriptor, current, lock, chan, tasks, upstream, log, refreshing, dropped, mvars, fvars, vvars>>

\* The preferences watch serves a refresh request: it publishes a snapshot
\* on every handle that is still open.
PreferencesRefresh(p) ==
    /\ upstream.refresh
    /\ upstream' = [upstream EXCEPT !.refresh = FALSE]
    /\ loops' = [s \in 1..Len(loops) |->
                    IF live(loops[s]) /\ ~loops[s].preferences.closed
                    THEN [loops[s] EXCEPT !.preferences.value = p,
                                          !.preferences.changed = TRUE]
                    ELSE loops[s]]
    /\ refreshing' =
          [refreshing EXCEPT
              !.called = FALSE,
              !.owed = @ \cup {s \in 1..Len(loops) :
                                 live(loops[s]) /\ ~loops[s].preferences.closed}]
    /\ UNCHANGED <<descriptor, current, lock, chan, tasks, log, dropped, mvars, fvars, vvars>>

\* select!: changed = preferences.changed(), Ok: spawn update with
\* borrow_and_update().
OnPreferencesChanged(s) ==
    /\ loops[s].pc = "idle"
    /\ spawned_detached(tasks, s)
    /\ \E changed \in changed_results(loops[s].preferences) : is_ok(changed)
    /\ Len(tasks) < MaxTasks
    /\ loops' = [loops EXCEPT ![s].preferences.changed = FALSE]
    /\ tasks' = Append(tasks, NewTask(s, "preferences", borrow_and_update(loops[s])))
    /\ refreshing' = [refreshing EXCEPT !.owed = @ \ {s},
                                        !.spawned = @ \/ s \in refreshing.owed]
    /\ UNCHANGED <<descriptor, current, lock, chan, upstream, log, dropped, mvars, fvars, vvars>>

\* select!: changed = preferences.changed(), Err: break with a warning.
OnPreferencesClosed(s) ==
    /\ loops[s].pc = "idle"
    /\ spawned_detached(tasks, s)
    /\ \E changed \in changed_results(loops[s].preferences) : ~is_ok(changed)
    /\ loops' = [loops EXCEPT ![s].pc = "stopped"]
    /\ log' = log \cup {"preferences channel closed"}
    /\ UNCHANGED <<descriptor, current, lock, chan, tasks, upstream, refreshing, dropped, mvars, fvars, vvars>>

\* select!: _ = tick: spawn update with borrow().
OnTick(s) ==
    /\ loops[s].pc = "idle"
    /\ spawned_detached(tasks, s)
    /\ Len(tasks) < MaxTasks
    /\ loops' = [loops EXCEPT ![s].ticks = tick_count(@),
                              ![s].preferences.changed = borrow_seen(@)]
    /\ tasks' = Append(tasks, NewTask(s, "tick", borrow(loops[s])))
    /\ UNCHANGED <<descriptor, current, lock, chan, upstream, log, refreshing, dropped, mvars, fvars, vvars>>

\* select!: _ = quit.recv(): break.
OnQuit(s) ==
    /\ loops[s].pc = "idle"
    /\ spawned_detached(tasks, s)
    /\ recv_ready(loops[s].quit)
    /\ loops' = [loops EXCEPT ![s].pc = "stopped"]
    /\ UNCHANGED <<descriptor, current, lock, chan, tasks, upstream, log, refreshing, dropped, mvars, fvars, vvars>>

\* unsubscribe(): self.tx.send(()) reaches every live quit receiver, a send
\* error is logged, and the preferences watch is unsubscribed.
Unsubscribe ==
    /\ ~dropped
    /\ loops' = broadcast_send(loops)
    /\ log' = IF send_result(loops) = "Err"
              THEN log \cup {"failed to send quit"} ELSE log
    /\ upstream' = unsubscribe_upstream(upstream, send_result(loops))
    /\ UNCHANGED <<descriptor, current, lock, chan, tasks, refreshing, dropped, mvars, fvars, vvars>>

\* The FeedWatcher is dropped, and its quit sender with it; subscribe(),
\* unsubscribe() and refresh() cannot be called any more.
Drop ==
    /\ ~dropped
    /\ dropped' = TRUE
    /\ loops' = [s \in 1..Len(loops) |->
                    IF live(loops[s])
                    THEN [loops[s] EXCEPT !.quit = sender_dropped(@)]
                    ELSE loops[s]]
    /\ UNCHANGED <<descriptor, current, lock, chan, tasks, upstream, log, refreshing, mvars, fvars, vvars>>

\* refresh(): the request is handed to the preferences watch. refreshing
\* records the call, the loops the preferences watch has published to in
\* serving it, and whether one of them has spawned a recompute on that edge.
Refresh ==
    /\ ~dropped
    /\ upstream' = refresh_upstream(upstream)
    /\ refreshing' = [refreshing EXCEPT !.called = TRUE]
    /\ UNCHANGED <<descriptor, current, lock, loops, chan, tasks, log, dropped, mvars, fvars, vvars>>

\* tokio::join!(agent.moderator(preferences), get_feed(agent, descriptor))
\* completes; moderator? or feed? fails and update logs the error, or both
\* are Ok and the page is reversed.
Fetch(t) ==
    /\ tasks[t].pc = "fetch"
    /\ runs_detached(loops, tasks[t].sub)
    /\ \E moderator_ok \in BOOLEAN, page \in {None} \cup {Some(pg) : pg \in RemotePages} :
          /\ IF calls_remote(descriptor) THEN TRUE ELSE page = Some(<< >>)
          /\ IF moderator_ok /\ page # None
             THEN /\ tasks' = [tasks EXCEPT ![t].pc = "lock",
                                            ![t].fetched = calls_remote(descriptor),
                                            ![t].feed = Reverse(page[1])]
                  /\ chan' = chan
                  /\ log' = log
             ELSE /\ tasks' = [tasks EXCEPT ![t].pc = "failed",
                                            ![t].fetched = calls_remote(descriptor)]
                  /\ chan' = update(chan, tasks[t].sub, None)
                  /\ log' = log \cup {"failed to get feed view posts"}
    /\ UNCHANGED <<descriptor, current, lock, loops, upstream, refreshing, dropped, mvars, fvars, vvars>>

\* Faulty variant: the cache is handed out although a task holds it.
lock_free_always(l) == TRUE

\* Mutex::lock completes only while no guard is alive.
lock_free(l) == l = 0

\* Faulty variant: the lock block is entered after a failed join! as well.
reaches_lock_on_error(task) == task.pc \in {"lock", "failed"}

\* moderator? and feed? return from calculate_feed before the lock block:
\* only a task with both results Ok arrives at current.lock().
reaches_lock(task) == task.pc = "lock"

\* current.lock().await
Lock(t) ==
    /\ reaches_lock(tasks[t])
    /\ runs_detached(loops, tasks[t].sub)
    /\ lock_free(lock)
    /\ lock' = t
    /\ tasks' = [tasks EXCEPT ![t].pc = "locked"]
    /\ UNCHANGED <<descriptor, current, loops, chan, upstream, log, refreshing, dropped, mvars, fvars, vvars>>

\* update_feeds(&feed, &mut feed_map), under the guard.
Merge(t) ==
    /\ tasks[t].pc = "locked"
    /\ runs_detached(loops, tasks[t].sub)
    /\ current' = update_feeds(tasks[t].feed, current)
    /\ tasks' = [tasks EXCEPT ![t].pc = "merged",
                              ![t].feed = << >>,
                              ![t].merged = current',
                              ![t].after_stop = ~live(loops[tasks[t].sub])]
    /\ UNCHANGED <<descriptor, lock, loops, chan, upstream, log, refreshing, dropped, mvars, fvars, vvars>>

\* feed_map.values().rev().cloned().collect(), and the guard is dropped at
\* the end of the block.
Snapshot(t) ==
    /\ tasks[t].pc = "merged"
    /\ runs_detached(loops, tasks[t].sub)
    /\ tasks' = [tasks EXCEPT ![t].pc = "filter",
                              ![t].ret = snapshot(current)]
    /\ lock' = 0
    /\ UNCHANGED <<descriptor, current, loops, chan, upstream, log, refreshing, dropped, mvars, fvars, vvars>>

\* The two retains, Ok(ret), and update's tx.send(feed).
FilterPublish(t) ==
    /\ tasks[t].pc = "filter"
    /\ runs_detached(loops, tasks[t].sub)
    /\ LET ret == retain_all(tasks[t].ret, descriptor, tasks[t].preferences) IN
          /\ chan' = update(chan, tasks[t].sub, Some(ret))
          /\ tasks' = [tasks EXCEPT ![t].pc = "done", ![t].ret = << >>,
                                    ![t].out = Some(ret)]
    /\ UNCHANGED <<descriptor, current, lock, loops, upstream, log, refreshing, dropped, mvars, fvars, vvars>>

\* Spec: the recomputes of a watcher whose preferences watch publishes
\* snapshots and stays open.
Next ==
    \/ Subscribe
    \/ Unsubscribe
    \/ \E s \in 1..Len(loops) : SkipFirstTick(s)
    \/ \E s \in 1..Len(loops) : OnPreferencesChanged(s)
    \/ \E s \in 1..Len(loops) : OnTick(s)
    \/ \E s \in 1..Len(loops) : OnQuit(s)
    \/ \E s \in 1..Len(loops), p \in PreferencesSnapshots : PreferencesSend(s, p)
    \/ \E t \in 1..Len(tasks) : Fetch(t)
    \/ \E t \in 1..Len(tasks) : Lock(t)
    \/ \E t \in 1..Len(tasks) : Merge(t)
    \/ \E t \in 1..Len(tasks) : Snapshot(t)
    \/ \E t \in 1..Len(tasks) : FilterPublish(t)

Spec == Init /\ [][Next]_vars

\* SpecLoop: the life of the dispatch loop under every event of its
\* surroundings (refresh requests, a preferences watch that publishes,
\* serves refreshes and closes), for a List watcher, whose recomputes fetch
\* no page.
InitLoop ==
    /\ Init
    /\ descriptor = "List"

NextLoop ==
    \/ Subscribe
    \/ Unsubscribe
    \/ Refresh
    \/ \E s \in 1..Len(loops) : SkipFirstTick(s)
    \/ \E s \in 1..Len(loops) : OnPreferencesChanged(s)
    \/ \E s \in 1..Len(loops) : OnPreferencesClosed(s)
    \/ \E s \in 1..Len(loops) : OnTick(s)
    \/ \E s \in 1..Len(loops) : OnQuit(s)
    \/ \E s \in 1..Len(loops), p \in PreferencesSnapshots : PreferencesSend(s, p)
    \/ \E s \in 1..Len(loops) : PreferencesClose(s)
    \/ \E p \in PreferencesSnapshots : PreferencesRefresh(p)
    \/ \E t \in 1..Len(tasks) : Fetch(t)
    \/ \E t \in 1..Len(tasks) : Lock(t)
    \/ \E t \in 1..Len(tasks) : Merge(t)
    \/ \E t \in 1..Len(tasks) : Snapshot(t)
    \/ \E t \in 1..Len(tasks) : FilterPublish(t)

SpecLoop == InitLoop /\ [][NextLoop]_vars

\* FairSpecLoop: SpecLoop under the scheduling the runtime gives. The first
\* interval tick completes at once; select! polls its branches in random
\* order, so a branch that stays ready is taken in the end; the preferences
\* watch serves a refresh request it was given.
FairLoop(s) ==
    /\ WF_vars(s <= Len(loops) /\ SkipFirstTick(s))
    /\ WF_vars(s <= Len(loops) /\ OnQuit(s))
    /\ WF_vars(s <= Len(loops) /\ OnPreferencesChanged(s))
    /\ WF_vars(s <= Len(loops) /\ OnPreferencesClosed(s))

FairSpecLoop ==
    /\ SpecLoop
    /\ \A s \in 1..MaxSubs : FairLoop(s)
    /\ WF_vars(\E p \in PreferencesSnapshots : PreferencesRefresh(p))

\* SpecDrop: the watcher of a List, dropped at any moment, with or without
\* unsubscribe() before; the loops wait at the first tick and at select! as
\* under FairSpecLoop.
NextDrop ==
    \/ Next
    \/ Drop

SpecDrop == InitLoop /\ [][NextDrop]_vars

FairSpecDrop ==
    /\ SpecDrop
    /\ \A s \in 1..MaxSubs :
          /\ WF_vars(s <= Len(loops) /\ SkipFirstTick(s))
          /\ WF_vars(s <= Len(loops) /\ OnQuit(s))

\* SpecHandles: subscribe() called several times on one Feed watcher whose
\* loops spawn recomputes on their ticks.
InitHandles ==
    /\ Init
    /\ descriptor = "Feed"

NextHandles ==
    \/ SubscribeUpTo(MaxHandles)
    \/ \E s \in 1..Len(loops) : SkipFirstTick(s)
    \/ \E s \in 1..Len(loops) : OnTick(s)
    \/ \E t \in 1..Len(tasks) : Fetch(t)
    \/ \E t \in 1..Len(tasks) : Lock(t)
    \/ \E t \in 1..Len(tasks) : Merge(t)
    \/ \E t \in 1..Len(tasks) : Snapshot(t)
    \/ \E t \in 1..Len(tasks) : FilterPublish(t)

SpecHandles == InitHandles /\ [][NextHandles]_vars

---------------------------------------------------------------------------
(* The claims about the watcher, under Spec.                               *)

Done(t) == tasks[t].pc = "done"

\* The filter stage as the specification states it: an item is removed when
\* the moderation decision says filter, or, for the timeline only, when the
\* preference decision table rejects it.
RemovedAsStated(fvp, d, preferences) ==
    \/ moderation_filter(preferences.moderation_prefs, fvp.post)
    \/ /\ d = "Timeline"
       /\ ~KeptByTable(fvp, home_pref(preferences))

ViewAsStated(cache, d, preferences) ==
    LET kept(fvp) == ~RemovedAsStated(fvp, d, preferences) IN
    SelectSeq(Reverse(cache), kept)

\* C1: a recompute whose fetch or moderator construction fails publishes
\* nothing: the step in which it fails leaves the value of every watch
\* channel as it was.
C1_FailedRecomputePublishesNothing ==
    [][\A t \in 1..Len(tasks) :
          (tasks[t].pc = "fetch" /\ tasks'[t].pc = "failed") => chan' = chan]_vars

\* A recompute has failed while a non-empty published value is visible.
C1_Witness ==
    \E t, u \in 1..Len(tasks) :
        /\ tasks[t].pc = "failed"
        /\ Done(u)
        /\ tasks[u].sub = tasks[t].sub
        /\ chan[tasks[t].sub] # << >>
        /\ chan[tasks[t].sub] = tasks[u].out[1]

\* C7: every value published by a successful recompute is the cache as it
\* stood right after that recompute's own merge, read tail-first, with an
\* item removed exactly when moderation says filter or (timeline only) the
\* preference filter rejects it; no item is added and no cid is doubled; and
\* a channel holds its default or a value so published.
C7_PublishedIsFilteredReversedCache ==
    /\ \A t \in 1..Len(tasks) :
          Done(t) =>
              /\ tasks[t].out[1] =
                    ViewAsStated(tasks[t].merged, descriptor, tasks[t].preferences)
              /\ UniqueKeys(tasks[t].out[1])
              /\ Range(tasks[t].out[1]) \subseteq Range(tasks[t].merged)
    /\ \A s \in 1..Len(chan) :
          \/ chan[s] = << >>
          \/ \E t \in 1..Len(tasks) :
                Done(t) /\ tasks[t].sub = s /\ chan[s] = tasks[t].out[1]

\* A timeline recompute published a cache of three entries of which
\* moderation removed one and the preference filter another.
C7_Witness ==
    /\ descriptor = "Timeline"
    /\ \E t \in 1..Len(tasks) :
          /\ Done(t)
          /\ Len(tasks[t].merged) = 3
          /\ Len(tasks[t].out[1]) = 1
          /\ chan[tasks[t].sub] = tasks[t].out[1]
          /\ \E i, j \in 1..3 :
                /\ moderation_filter(tasks[t].preferences.moderation_prefs,
                                     tasks[t].merged[i].post)
                /\ ~moderation_filter(tasks[t].preferences.moderation_prefs,
                                      tasks[t].merged[j].post)
                /\ tasks[t].merged[j] \notin Range(tasks[t].out[1])

\* C8: for a named-feed or list descriptor the published value is the same
\* for every setting of the home feed-view preference (absent, or any value
\* of hide-reposts, hide-replies, the like-count threshold,
\* hide-replies-by-unfollowed and hide-quote-posts): only moderation
\* filters.
C8_PreferenceFilterOnlyOnTimeline ==
    descriptor # "Timeline" =>
        \A t \in 1..Len(tasks) :
            Done(t) =>
                /\ \A fp \in {None} \cup {Some(x) : x \in FeedViewPreferences} :
                      retain_all(snapshot(tasks[t].merged), descriptor,
                                 [tasks[t].preferences EXCEPT !.feed_view_prefs = fp])
                          = tasks[t].out[1]
                /\ \A i \in 1..Len(tasks[t].merged) :
                      tasks[t].merged[i] \in Range(tasks[t].out[1])
                          <=> ~moderation_filter(tasks[t].preferences.moderation_prefs,
                                                 tasks[t].merged[i].post)

\* A named-feed recompute with hide-reposts on published a repost and a
\* reply of no likes.
C8_Witness ==
    /\ descriptor = "Feed"
    /\ \E t \in 1..Len(tasks) :
          /\ Done(t)
          /\ tasks[t].preferences = CustomPreferences
          /\ \E i, j \in 1..Len(tasks[t].out[1]) :
                /\ IsRepost(tasks[t].out[1][i].reason)
                /\ tasks[t].out[1][j].reply # None
          /\ chan[tasks[t].sub] = tasks[t].out[1]

\* C10 as stated: a recompute triggered by a preferences change alone
\* re-evaluates the filter over the unchanged cache and performs no new
\* remote fetch.
C10_NoFetchOnPreferencesChange ==
    \A t \in 1..Len(tasks) :
        tasks[t].trigger = "preferences" => ~tasks[t].fetched

\* The latest recompute that loop s spawned on a preferences change.
LatestPreferencesTask(s) ==
    LET ts == {t \in 1..Len(tasks) :
                  tasks[t].sub = s /\ tasks[t].trigger = "preferences"}
    IN  IF ts = {} THEN 0 ELSE CHOOSE t \in ts : \A u \in ts : u <= t

\* C10 as amended: a preferences change makes the dispatch loop spawn a full
\* recompute with the newly observed snapshot; it performs a new remote
\* fetch (a List descriptor alone fetches nothing), merges the page and
\* publishes the cache after that merge, filtered with the new snapshot.
C10_PreferencesChangeRefetches ==
    /\ \A t \in 1..Len(tasks) :
          (tasks[t].trigger = "preferences" /\ tasks[t].pc # "fetch") =>
              /\ tasks[t].fetched <=> descriptor # "List"
              /\ Done(t) =>
                    tasks[t].out[1] =
                        ViewAsStated(tasks[t].merged, descriptor, tasks[t].preferences)
    /\ \A s \in 1..Len(loops) :
          (~loops[s].preferences.changed /\ LatestPreferencesTask(s) # 0) =>
              tasks[LatestPreferencesTask(s)].preferences = loops[s].preferences.value

\* A recompute spawned by a preferences change fetched a page that brought
\* new items, merged them and published the view under the new snapshot.
C10_Witness ==
    \E t \in 1..Len(tasks) :
        /\ tasks[t].trigger = "preferences"
        /\ Done(t)
        /\ tasks[t].fetched
        /\ tasks[t].preferences = CustomPreferences
        /\ t > 1
        /\ Done(t - 1)
        /\ Len(tasks[t].merged) > Len(tasks[t - 1].merged)
        /\ Len(tasks[t].out[1]) < Len(tasks[t].merged)
        /\ chan[tasks[t].sub] = tasks[t].out[1]

---------------------------------------------------------------------------
(* The claims about the dispatch loop, under SpecLoop and FairSpecLoop.    *)

Stopped(s) == s <= Len(loops) /\ loops[s].pc = "stopped"

\* unsubscribe() was called while the dispatch loop of subscribe() call s
\* was alive: its quit receiver holds a signal, or has lagged.
QuitSent(s) == s <= Len(loops) /\ loops[s].quit # "empty"

\* C11: after unsubscribe() every dispatch loop started by an earlier
\* subscribe() reaches Stopped in the end, whatever ticks and preferences
\* edges are pending with the quit signal.
C11_UnsubscribeStopsEveryLoop ==
    \A s \in 1..MaxSubs : QuitSent(s) ~> Stopped(s)

\* A loop was stopped by the quit signal while a preferences edge was
\* pending and after it had spawned recomputes on a tick and on an edge.
C11_Witness ==
    \E s \in 1..Len(loops) :
        /\ Stopped(s)
        /\ QuitSent(s)
        /\ loops[s].preferences.changed
        /\ ~loops[s].preferences.closed
        /\ \E t, u \in 1..Len(tasks) :
              /\ tasks[t].sub = s /\ tasks[t].trigger = "tick"
              /\ tasks[u].sub = s /\ tasks[u].trigger = "preferences"

\* unsubscribe() has been called: its send reached a receiver or failed.
UnsubscribeCalled ==
    \/ "failed to send quit" \in log
    \/ \E s \in 1..Len(loops) : QuitSent(s)

\* What a loop makes of its quit receiver: where it is and whether recv()
\* would complete.
QuitEffect(ls) == [s \in 1..Len(ls) |-> <<ls[s].pc, recv_ready(ls[s].quit)>>]

\* unsubscribe() called once more from the state at hand, and twice more.
UnsubscribedOnce ==
    [ls |-> broadcast_send(loops),
     up |-> unsubscribe_upstream(upstream, send_result(loops))]
UnsubscribedTwice ==
    [ls |-> broadcast_send(UnsubscribedOnce.ls),
     up |-> unsubscribe_upstream(UnsubscribedOnce.up, send_result(UnsubscribedOnce.ls))]

\* C12: unsubscribe() can always be called; whatever its send returned (also
\* Err, which is only logged) the preferences watch is unsubscribed; a
\* second call changes neither what the loops make of their quit receivers
\* nor the request to the preferences watch; and a loop whose receiver a
\* repeated signal has overflowed is as ready to quit as one that holds the
\* signal, and stops in the end.
C12_UnsubscribeIdempotent ==
    /\ [](ENABLED Unsubscribe)
    /\ [](UnsubscribeCalled => upstream.unsubscribed)
    /\ [](/\ QuitEffect(UnsubscribedTwice.ls) = QuitEffect(UnsubscribedOnce.ls)
          /\ UnsubscribedTwice.up = UnsubscribedOnce.up)
    /\ [](\A s \in 1..Len(loops) :
            (loops[s].pc = "idle" /\ QuitSent(s)) => ENABLED OnQuit(s))
    /\ \A s \in 1..MaxSubs :
          (s <= Len(loops) /\ loops[s].quit = "lagged") ~> Stopped(s)

\* unsubscribe() was called three times: the second signal overflowed the
\* quit channel of a live loop, which stopped on it, and the third found no
\* receiver and logged the failed send.
C12_Witness ==
    /\ "failed to send quit" \in log
    /\ upstream.unsubscribed
    /\ \E s \in 1..Len(loops) :
          /\ Stopped(s)
          /\ loops[s].quit = "lagged"
          /\ ~loops[s].preferences.closed

\* The dispatch loop of subscribe() call s is running: it has not ended, no
\* quit signal is waiting for it and its preferences handle is open.
Running(s) ==
    /\ s <= Len(loops)
    /\ live(loops[s])
    /\ loops[s].quit = "empty"
    /\ ~loops[s].preferences.closed

\* The last task was spawned by loop s on a preferences edge.
SpawnedOnEdge(s) ==
    /\ Len(tasks') = Len(tasks) + 1
    /\ tasks'[Len(tasks')].sub = s
    /\ tasks'[Len(tasks')].trigger = "preferences"
    /\ tasks'[Len(tasks')].pc = "fetch"

\* C13: refresh() can always be called and returns at once: the call spawns
\* nothing and changes no loop; for a running loop the preferences watch
\* then publishes on the loop's handle, and on that edge the loop spawns a
\* recompute, with no timer tick needed (unless the loop is stopped first;
\* the model spawns at most MaxTasks recomputes).
C13_RefreshSpawnsRecompute ==
    /\ [](ENABLED Refresh)
    /\ [][(refreshing'.called /\ ~refreshing.called) =>
              UNCHANGED <<loops, tasks, chan, current, lock>>]_vars
    /\ [][\A s \in 1..Len(loops) :
              (s \in refreshing.owed /\ s \notin refreshing'.owed) =>
                  SpawnedOnEdge(s)]_vars
    /\ \A s \in 1..MaxSubs :
          /\ (refreshing.called /\ Running(s)) ~>
                (s \in refreshing.owed \/ ~Running(s))
          /\ (s \in refreshing.owed) ~>
                (s \notin refreshing.owed \/ ~Running(s) \/ Len(tasks) = MaxTasks)

\* After refresh() a running loop that has seen no tick but the first has
\* spawned a recompute on the edge the refresh brought.
C13_Witness ==
    /\ refreshing.spawned
    /\ refreshing.owed = {}
    /\ \E s \in 1..Len(loops) :
          /\ Running(s)
          /\ loops[s].ticks = 1
          /\ \E t \in 1..Len(tasks) :
                tasks[t].sub = s /\ tasks[t].trigger = "preferences"
    /\ \A t \in 1..Len(tasks) : tasks[t].trigger = "preferences"

\* Task t has been spawned and has neither published nor failed.
InFlight(t) == tasks[t].pc \in {"fetch", "lock", "locked", "merged", "filter"}

\* C18: a step that spawns spawns exactly one recompute and touches no
\* other; the loop that observed an edge, or its second tick, has spawned
\* one and is back at awaiting triggers; and whatever the recomputes in
\* flight are doing, an idle loop takes its next tick, its pending edge and
\* its quit signal (the model spawns at most MaxTasks recomputes, the code
\* has no bound).
C18_DispatchNeverWaits ==
    /\ [][/\ Len(tasks') \in {Len(tasks), Len(tasks) + 1}
          /\ Len(tasks') = Len(tasks) + 1 =>
                /\ SubSeq(tasks', 1, Len(tasks)) = tasks
                /\ tasks'[Len(tasks')].pc = "fetch"
                /\ loops[tasks'[Len(tasks')].sub].pc = "idle"
                /\ loops'[tasks'[Len(tasks')].sub].pc = "idle"
          /\ \A s \in 1..Len(loops) :
                ((loops[s].preferences.changed /\ ~loops'[s].preferences.changed)
                    \/ (loops[s].ticks = 1 /\ loops'[s].ticks = 2)) =>
                        /\ Len(tasks') = Len(tasks) + 1
                        /\ tasks'[Len(tasks')].sub = s
                        /\ loops'[s].pc = "idle"]_vars
    /\ [](\A s \in 1..Len(loops) :
            loops[s].pc = "idle" =>
                /\ Len(tasks) < MaxTasks => ENABLED OnTick(s)
                /\ (Len(tasks) < MaxTasks /\ loops[s].preferences.changed) =>
                      ENABLED OnPreferencesChanged(s)
                /\ QuitSent(s) => ENABLED OnQuit(s))

\* A loop has spawned a recompute on a tick and one on an edge and has
\* taken the quit signal while both were in flight, one of them waiting for
\* the lock the other holds.
C18_Witness ==
    \E s \in 1..Len(loops) :
        /\ Stopped(s)
        /\ QuitSent(s)
        /\ ~loops[s].preferences.closed
        /\ Len(tasks) = MaxTasks
        /\ \A t \in 1..Len(tasks) : tasks[t].sub = s /\ InFlight(t)
        /\ \E t, u \in 1..Len(tasks) :
              /\ tasks[t].trigger = "tick" /\ tasks[u].trigger = "preferences"
              /\ tasks[t].pc = "lock" /\ lock = u

\* The recomputes loop s has spawned, by their triggers.
TriggersOf(s) == {tasks[t].trigger : t \in {u \in 1..Len(tasks) : tasks[u].sub = s}}

\* C19: the first tick after subscribe() spawns nothing; a loop that has not
\* consumed it has spawned nothing at all, and one that has consumed no
\* second tick has spawned on preferences edges only; the second tick spawns
\* the first recompute a tick triggers.
C19_FirstTickDiscarded ==
    /\ [](\A s \in 1..Len(loops) :
            /\ loops[s].ticks = 0 <=> loops[s].pc = "skip"
            /\ loops[s].ticks = 0 => TriggersOf(s) = {}
            /\ loops[s].ticks = 1 => TriggersOf(s) \subseteq {"preferences"}
            /\ "tick" \in TriggersOf(s) => loops[s].ticks = 2)
    /\ [][\A s \in 1..Len(loops) :
            /\ (loops[s].ticks = 0 /\ loops'[s].ticks = 1) => tasks' = tasks
            /\ (loops[s].ticks = 1 /\ loops'[s].ticks = 2) =>
                  /\ tasks' = Append(tasks, tasks'[Len(tasks')])
                  /\ tasks'[Len(tasks')].sub = s
                  /\ tasks'[Len(tasks')].trigger = "tick"]_vars

\* A loop spawned a recompute on a preferences edge after its first tick,
\* and its first recompute on a tick with the second tick.
C19_Witness ==
    \E s \in 1..Len(loops) :
        /\ loops[s].ticks = 2
        /\ Len(tasks) = 2
        /\ tasks[1].sub = s /\ tasks[1].trigger = "preferences"
        /\ tasks[2].sub = s /\ tasks[2].trigger = "tick"

\* The preferences handle of loop s is closed.
UpstreamClosed(s) == s <= Len(loops) /\ loops[s].preferences.closed

\* A task of loop s is spawned in this step.
Spawns(s) ==
    /\ Len(tasks') > Len(tasks)
    /\ tasks'[Len(tasks')].sub = s

\* C20: a loop whose preferences channel is closed stops in the end; the
\* step in which it stops spawns nothing and, unless a quit signal was
\* there, logs the closed channel; a stopped loop stays stopped and spawns
\* nothing, on ticks or otherwise; the preferences branch spawns on an unseen
\* value only, never on the closure; and a closed handle stays closed (the
\* loop does not subscribe again).
C20_UpstreamClosedStopsLoop ==
    /\ [][\A s \in 1..Len(loops) :
            /\ (loops[s].pc # "stopped" /\ loops'[s].pc = "stopped") =>
                  /\ tasks' = tasks
                  /\ loops[s].quit = "empty" =>
                        /\ loops[s].preferences.closed
                        /\ "preferences channel closed" \in log'
            /\ loops[s].pc = "stopped" =>
                  /\ loops'[s].pc = "stopped"
                  /\ ~Spawns(s)
            /\ (Spawns(s) /\ tasks'[Len(tasks')].trigger = "preferences") =>
                  loops[s].preferences.changed
            /\ loops[s].preferences.closed =>
                  /\ loops'[s].preferences.closed
                  /\ Len(loops') >= Len(loops)]_vars
    /\ \A s \in 1..MaxSubs : UpstreamClosed(s) ~> Stopped(s)

\* A loop that had spawned a recompute stopped on the closed preferences
\* channel, with no quit signal sent; no tick spawns any more although the
\* model could hold another recompute.
C20_Witness ==
    \E s \in 1..Len(loops) :
        /\ Stopped(s)
        /\ UpstreamClosed(s)
        /\ loops[s].quit = "empty"
        /\ "preferences channel closed" \in log
        /\ Len(tasks) = 1
        /\ Len(tasks) < MaxTasks
        /\ tasks[1].sub = s
        /\ ~ENABLED OnTick(s)
        /\ ~ENABLED OnPreferencesChanged(s)

---------------------------------------------------------------------------
(* The claims about several handles of one watcher, under SpecHandles.     *)

\* Task t publishes in this step.
Publishes(t) == tasks[t].pc = "filter" /\ tasks'[t].pc = "done"

\* C14: every value published by a recompute of the watcher becomes the
\* current value of every live handle that subscribe() has returned.
C14_EveryHandleSeesEveryPublish ==
    [][\A t \in 1..Len(tasks) :
          Publishes(t) =>
              \A s \in 1..Len(chan) :
                  live(loops[s]) => chan'[s] = tasks'[t].out[1]]_vars

---------------------------------------------------------------------------
(* The claims about concurrent recomputes, under Spec.                     *)

\* C16: publishing is last-write-wins in completion order: a recompute that
\* publishes makes its own result the value of its channel, whatever the
\* channel held and whichever recomputes were spawned before or after it;
\* nothing is compared, coalesced or held back.
C16_LastPublishWins ==
    [][\A t \in 1..Len(tasks) :
          Publishes(t) =>
              /\ chan'[tasks[t].sub] = tasks'[t].out[1]
              /\ \A s \in 1..Len(chan) : s # tasks[t].sub => chan'[s] = chan[s]]_vars

\* Recompute A was spawned before recompute B of the same loop; B published
\* first and A afterwards, so the channel holds A's result, which lacks an
\* item B had merged into the cache and was filtered with the preferences
\* snapshot older than B's.
C16_Witness ==
    \E a, b \in 1..Len(tasks) :
        /\ a < b
        /\ tasks[a].sub = tasks[b].sub
        /\ Done(a) /\ Done(b)
        /\ chan[tasks[a].sub] = tasks[a].out[1]
        /\ tasks[a].out[1] # tasks[b].out[1]
        /\ Keys(tasks[b].merged) \ Keys(tasks[a].merged) # {}
        /\ Keys(tasks[b].out[1]) \ Keys(tasks[a].out[1]) # {}
        /\ tasks[a].preferences = DefaultPreferences
        /\ tasks[b].preferences = CustomPreferences
        /\ tasks[b].trigger = "preferences"
        /\ loops[tasks[b].sub].preferences.value = CustomPreferences

\* Task t is inside the block that holds the guard of the cache.
InMergeAndSnapshot(t) == tasks[t].pc \in {"locked", "merged"}

\* C17: at most one recompute is inside merge-and-snapshot; the lock is held
\* by exactly the task inside it, so by none that awaits its fetch or the
\* lock, filters, has published or has failed; and the snapshot a task takes
\* is the cache as its own merge left it.
C17_LockScopedToMergeAndSnapshot ==
    /\ Cardinality({t \in 1..Len(tasks) : InMergeAndSnapshot(t)}) <= 1
    /\ \A t \in 1..Len(tasks) : lock = t <=> InMergeAndSnapshot(t)
    /\ lock \in 0..Len(tasks)
    /\ \A t \in 1..Len(tasks) :
          /\ tasks[t].pc = "merged" => current = tasks[t].merged
          /\ tasks[t].pc = "filter" => tasks[t].ret = snapshot(tasks[t].merged)

\* A recompute has merged a page and holds the lock while another one, its
\* page fetched, waits for the lock.
C17_Witness ==
    \E t, u \in 1..Len(tasks) :
        /\ tasks[t].pc = "merged"
        /\ tasks[t].merged # << >>
        /\ lock = t
        /\ tasks[u].pc = "lock"
        /\ tasks[u].feed # << >>
        /\ ~ENABLED Lock(u)

---------------------------------------------------------------------------
(* The claims about what outlives a dispatch loop, under Spec.             *)

\* The next step of recompute t is there to take (a task at the lock waits
\* for the guard of another task and for nothing else).
CanProceed(t) ==
    /\ tasks[t].pc = "fetch" => ENABLED Fetch(t)
    /\ (tasks[t].pc = "lock" /\ lock = 0) => ENABLED Lock(t)
    /\ tasks[t].pc = "locked" => ENABLED Merge(t)
    /\ tasks[t].pc = "merged" => ENABLED Snapshot(t)
    /\ tasks[t].pc = "filter" => ENABLED FilterPublish(t)

\* C21: a stopped dispatch loop stays stopped and spawns no recompute; the
\* step in which it stops leaves every recompute and the cache as they are;
\* and a recompute in flight whose loop has stopped still has its next step
\* to take, so that it merges into the cache and publishes after the stop.
C21_StoppedTerminalWorkNotCancelled ==
    /\ [][\A s \in 1..Len(loops) :
            /\ loops[s].pc = "stopped" =>
                  /\ loops'[s].pc = "stopped"
                  /\ ~Spawns(s)
            /\ (loops[s].pc # "stopped" /\ loops'[s].pc = "stopped") =>
                  /\ tasks' = tasks
                  /\ current' = current
                  /\ lock' = lock
                  /\ chan' = chan]_vars
    /\ [](\A t \in 1..Len(tasks) :
            (InFlight(t) /\ Stopped(tasks[t].sub)) => CanProceed(t))

\* A recompute whose loop had already stopped when it merged has put its
\* page into the cache and published a feed that the handle holds.
C21_Witness ==
    \E t \in 1..Len(tasks) :
        /\ Stopped(tasks[t].sub)
        /\ Done(t)
        /\ tasks[t].after_stop
        /\ tasks[t].merged # << >>
        /\ current = tasks[t].merged
        /\ tasks[t].out # None
        /\ tasks[t].out[1] # << >>
        /\ chan[tasks[t].sub] = tasks[t].out[1]

---------------------------------------------------------------------------
(* The claim about the dispatch tasks of one watcher, under SpecHandles.   *)

\* The dispatch loops of the watcher that have not ended.
LiveLoops == {s \in 1..Len(loops) : live(loops[s])}

\* C22: at any time at most one dispatch loop of the watcher is live,
\* however many times subscribe() has been called on it.
C22_AtMostOneLiveLoop == Cardinality(LiveLoops) <= 1

---------------------------------------------------------------------------
(* The claim about failed recomputes, under Spec.                          *)

\* Recompute t has failed: moderator? or feed? returned the error.
Failed(t) == tasks[t].pc = "failed"

\* C23: a recompute fails out of its fetch only, in a step that leaves the
\* cache, its lock and every handle as they are; a failed recompute holds no
\* page, has merged nothing, never holds the lock and takes no further step;
\* and the cache changes only in the merge of the recompute that holds the
\* lock, which cannot fail any more and has its snapshot and its publish to
\* take.
C23_FailedRecomputeLeavesCache ==
    /\ [][\A t \in 1..Len(tasks) :
            /\ (~Failed(t) /\ tasks'[t].pc = "failed") =>
                  /\ tasks[t].pc = "fetch"
                  /\ current' = current
                  /\ lock' = lock
                  /\ chan' = chan
            /\ Failed(t) => tasks'[t] = tasks[t]
            /\ tasks[t].pc \in {"lock", "locked", "merged", "filter", "done"} =>
                  tasks'[t].pc # "failed"]_vars
    /\ [][current' # current =>
            \E t \in 1..Len(tasks) :
                /\ lock = t
                /\ tasks[t].pc = "locked"
                /\ tasks'[t].pc = "merged"
                /\ tasks'[t].merged = current']_vars
    /\ [](\A t \in 1..Len(tasks) :
            /\ Failed(t) =>
                  /\ lock # t
                  /\ tasks[t].feed = << >>
                  /\ tasks[t].merged = << >>
                  /\ tasks[t].ret = << >>
                  /\ tasks[t].out = None
            /\ tasks[t].pc = "merged" => ENABLED Snapshot(t)
            /\ tasks[t].pc = "filter" => ENABLED FilterPublish(t))

\* A recompute has failed and logged it while the cache is what the merge of
\* another recompute, which has published, made of it, and the lock is free.
C23_Witness ==
    \E t, u \in 1..Len(tasks) :
        /\ Failed(t)
        /\ tasks[t].fetched
        /\ "failed to get feed view posts" \in log
        /\ Done(u)
        /\ tasks[u].merged # << >>
        /\ current = tasks[u].merged
        /\ lock = 0

---------------------------------------------------------------------------
(* The claim about pending preferences edges, under FairSpecLoop.          *)

\* A published snapshot that loop s has not yet seen.
EdgePending(s) == s <= Len(loops) /\ loops[s].preferences.changed

\* C24: a publish on the handle of a loop leaves its value as the latest
\* one, unseen; the only step that marks it seen is the preferences branch
\* spawning a recompute with the latest value; in particular a tick reads
\* the latest value and leaves the edge pending; and a pending edge of a
\* running loop is consumed in the end (the model spawns at most MaxTasks
\* recomputes).
C24_PreferencesChangeNeverLost ==
    /\ [][\A s \in 1..Len(loops) :
            /\ (EdgePending(s) /\ ~loops'[s].preferences.changed) =>
                  /\ SpawnedOnEdge(s)
                  /\ tasks'[Len(tasks')].preferences = loops[s].preferences.value
                  /\ loops'[s].preferences.value = loops[s].preferences.value
            /\ (Spawns(s) /\ tasks'[Len(tasks')].trigger = "tick") =>
                  /\ tasks'[Len(tasks')].preferences = loops[s].preferences.value
                  /\ loops'[s].preferences = loops[s].preferences
            /\ loops'[s].preferences.value # loops[s].preferences.value =>
                  loops'[s].preferences.changed]_vars
    /\ \A s \in 1..MaxSubs :
          (EdgePending(s) /\ Running(s)) ~>
              (~EdgePending(s) \/ ~Running(s) \/ Len(tasks) = MaxTasks)

\* The first recompute of a running loop was spawned by a tick that read a
\* published snapshot, and the second by the preferences branch, with the
\* same snapshot: the tick had left the edge pending.
C24_Witness ==
    \E s \in 1..Len(loops) :
        /\ Running(s)
        /\ ~EdgePending(s)
        /\ Len(tasks) >= 2
        /\ tasks[1].sub = s
        /\ tasks[1].trigger = "tick"
        /\ tasks[1].preferences = CustomPreferences
        /\ tasks[2].sub = s
        /\ tasks[2].trigger = "preferences"
        /\ tasks[2].preferences = CustomPreferences
        /\ loops[s].preferences.value = CustomPreferences

---------------------------------------------------------------------------
(* The claim about a watcher that is dropped, under FairSpecDrop.          *)

\* C25: while the watcher is there no quit receiver finds its channel
\* closed; the step that drops the watcher spawns nothing and stops nothing
\* by itself, but leaves every live loop with a result to receive on its
\* quit channel (the signal or the lag of an earlier unsubscribe(), else the
\* closed channel); after it no loop is started, every loop reaches Stopped
\* in the end, and a stopped loop spawns nothing.
C25_DroppedWatcherStopsLoops ==
    /\ [](\A s \in 1..Len(loops) :
            /\ ~dropped => loops[s].quit # "closed"
            /\ (dropped /\ live(loops[s])) =>
                  /\ recv_ready(loops[s].quit)
                  /\ loops[s].pc = "idle" => ENABLED OnQuit(s))
    /\ [][/\ (~dropped /\ dropped') =>
               /\ tasks' = tasks
               /\ \A s \in 1..Len(loops) : loops'[s].pc = loops[s].pc
          /\ dropped =>
               /\ dropped'
               /\ Len(loops') = Len(loops)
               /\ \A s \in 1..Len(loops) :
                     /\ loops'[s].quit = loops[s].quit
                     /\ ~live(loops[s]) => (~live(loops'[s]) /\ ~Spawns(s))]_vars
    /\ \A s \in 1..MaxSubs : (dropped /\ s <= Len(loops)) ~> Stopped(s)

\* The watcher was dropped with unsubscribe() never called; its loop, which
\* had spawned a recompute, found the quit channel closed and stopped, and
\* spawns nothing although the model could hold another recompute.
C25_Witness ==
    \E s \in 1..Len(loops) :
        /\ dropped
        /\ ~upstream.unsubscribed
        /\ loops[s].quit = "closed"
        /\ Stopped(s)
        /\ Len(tasks) = 1
        /\ Len(tasks) < MaxTasks
        /\ tasks[1].sub = s
        /\ ~ENABLED OnTick(s)
        /\ ~ENABLED OnPreferencesChanged(s)

---------------------------------------------------------------------------
(* SpecView: FeedViewComponent::update on NextItem, PrevItem and Update.   *)
(* A usize is held as its residue of least magnitude modulo 2^64: n >= 0   *)
(* stands for n, n < 0 for 2^64 + n. The maps hold at most MaxItems posts, *)
(* so every residue that occurs is small and the arithmetic is exact.      *)

\* The most posts of an item map.
MaxItems == 3
\* How far below zero (below 2^64) PrevItem is followed on a wrapped index.
MaxWrap == 2

\* The item maps an Update can bring: any posts in any order, unique by cid.
ItemMaps ==
    {m \in SeqsUpTo(Cids, MaxItems) : \A i, j \in 1..Len(m) : m[i] = m[j] => i = j}

\* a < b on usize.
usize_lt(a, b) == IF (a < 0) = (b < 0) THEN a < b ELSE b < 0

\* usize::min and usize::max
usize_min(a, b) == IF usize_lt(b, a) THEN b ELSE a
usize_max(a, b) == IF usize_lt(a, b) THEN b ELSE a

\* a - b and a + b on usize: the wrapped value, and whether it overflowed.
usize_sub(a, b) == [value |-> a - b, overflow |-> usize_lt(a, b)]
usize_add(a, b) == [value |-> a + b, overflow |-> a < 0 /\ a + b >= 0]

\* IndexMap::get_index: the key at a 0-based index, None out of range.
get_index(map, i) ==
    IF i >= 0 /\ i < Len(map) THEN Some(map[i + 1]) ELSE None

\* IndexMap::get_index_of: the 0-based index of a key.
get_index_of(map, cid) ==
    IF \E i \in 1..Len(map) : map[i] = cid
    THEN Some((CHOOSE i \in 1..Len(map) : map[i] = cid) - 1)
    ELSE None

\* (s + 1).min(self.items.len() - 1), for a non-empty map.
next_index(map, s) ==
    LET sum == usize_add(s, 1) IN
        [value |-> usize_min(sum.value, Len(map) - 1), overflow |-> sum.overflow]

\* s.max(1) - 1
prev_index(s) == usize_max(s, 1) - 1

\* self.items.len() - 1 - i
from_end(len, i) ==
    LET once == usize_sub(len, 1)
        twice == usize_sub(once.value, i)
    IN  [value |-> twice.value, overflow |-> once.overflow \/ twice.overflow]

\* The let select = .. of Action::Update: the selected row is turned into a
\* cid of self.items, the cid into its index in self.items, and that index is
\* counted from the end of the new map.
select_of(map, st, new_map) ==
    IF st = None
    THEN [value |-> None, overflow |-> FALSE]
    ELSE LET at == from_end(Len(map), st[1])
             cid == get_index(map, at.value)
         IN  IF cid = None
             THEN [value |-> None, overflow |-> at.overflow]
             ELSE LET i == get_index_of(map, cid[1])
                      row == from_end(Len(new_map), i[1])
                  IN  [value |-> Some(row.value),
                       overflow |-> at.overflow \/ row.overflow]

\* The post of the selected row, rows showing self.items.values().rev().
SelectedPost ==
    IF state # None /\ state[1] >= 0 /\ state[1] < Len(items)
    THEN Some(items[Len(items) - state[1]])
    ELSE None

\* An arithmetic overflow in a build with overflow checks: update panics and
\* the component handles nothing more.
Panic(action) ==
    /\ panicked' = TRUE
    /\ last' = [action |-> action, selected |-> SelectedPost]
    /\ UNCHANGED <<items, state, overflow_checks>>

\* What update leaves when it returns Action::Render.
Rendered(action, map, st) ==
    /\ items' = map
    /\ state' = st
    /\ last' = [action |-> action, selected |-> SelectedPost]
    /\ UNCHANGED <<overflow_checks, panicked>>

InitView ==
    /\ items = << >>
    /\ state = None
    /\ overflow_checks \in BOOLEAN
    /\ panicked = FALSE
    /\ last = [action |-> "new", selected |-> None]
    /\ MergeIdle
    /\ FilterIdle
    /\ WatcherIdle

\* Action::NextItem if !self.items.is_empty()
NextItem ==
    /\ ~panicked
    /\ items # << >>
    /\ LET next == IF state = None THEN [value |-> 0, overflow |-> FALSE]
                   ELSE next_index(items, state[1])
       IN  IF next.overflow /\ overflow_checks
           THEN Panic("NextItem")
           ELSE Rendered("NextItem", items, Some(next.value))
    /\ UNCHANGED <<mvars, fvars, wvars>>

\* Action::PrevItem if !self.items.is_empty()
PrevItem ==
    /\ ~panicked
    /\ items # << >>
    /\ IF state = None THEN TRUE ELSE state[1] >= -MaxWrap
    /\ Rendered("PrevItem", items,
                Some(IF state = None THEN 0 ELSE prev_index(state[1])))
    /\ UNCHANGED <<mvars, fvars, wvars>>

\* Action::Update(data) with Data::FeedViews(new_map)
Update(new_map) ==
    /\ ~panicked
    /\ LET select == select_of(items, state, new_map) IN
           IF select.overflow /\ overflow_checks
           THEN Panic("Update")
           ELSE Rendered("Update", new_map, select.value)
    /\ UNCHANGED <<mvars, fvars, wvars>>

NextView ==
    \/ NextItem
    \/ PrevItem
    \/ \E new_map \in ItemMaps : Update(new_map)

SpecView == InitView /\ [][NextView]_vars

\* C26: after any sequence of NextItem, PrevItem and Update the selected
\* index is absent or less than the number of items; and after an Update
\* whose map still holds the post that was selected, the selected index is
\* the row of that post, rows being newest first.
C26_SelectionSurvivesUpdates ==
    /\ state = None \/ usize_lt(state[1], Len(items))
    /\ (/\ last.action = "Update"
        /\ ~panicked
        /\ last.selected # None
        /\ \E i \in 1..Len(items) : items[i] = last.selected[1])
          => SelectedPost = last.selected


=============================================================================
